---- MODULE Spec2Model ----
(***************************************************************************)
(* Model of urbanIQ's acquisition orchestrator (app/services/data_service) *)
(* One run of DataService.fetch_datasets_for_request: the request list is  *)
(* turned into the fetch list, one coroutine per registered kind is handed *)
(* to asyncio.gather(return_exceptions=True), the coroutines run           *)
(* interleaved, and the result loop classifies every outcome.              *)
(***************************************************************************)
EXTENDS Integers, Sequences, FiniteSets, TLC

(* ---- bounds ----------------------------------------------------------- *)
MaxDatasets == 2

\* concurrent callers of one limiter's acquire
NCallers == 4

\* concurrent runs fetching from the Overpass source
NRuns == 2

\* latest tick at which a caller may arrive
MaxTime == 1
\* latest tick to which the clock runs for a pending retry
MaxClock == 8

\* features in one source response or one dataset
MaxFeatures == 1

\* datasets passed to one harmonization
MaxInputs == 2

\* geometries in a frame passed to the geometry validation on its own
MaxGeoms == 3

\* how far the counts of a frame passed to the quality report are from 0,
\* from its length and from the length that saturates the coverage
MaxCount == 1

(* ---- program constants ------------------------------------------------ *)
BOUNDARY == "bezirksgrenzen"

DATASET_CONNECTOR_MAPPING == {"bezirksgrenzen", "gebaeude", "oepnv_haltestellen"}

\* kinds a caller may put in the request: the registered ones and one that
\* has no connector
RequestKinds == DATASET_CONNECTOR_MAPPING \cup {"unknown_dataset"}

RequestLists == UNION {[1..n -> RequestKinds] : n \in 0..MaxDatasets}

VARIABLES
    pc,                 \* position of fetch_datasets_for_request
    datasets,           \* argument: the requested kinds
    job_id,             \* argument: TRUE when a job id was passed
    all_datasets,       \* the fetch list built from the request
    tasks,              \* tasks[i]: kind of the i-th coroutine given to gather
    tstate,             \* tstate[i]: position of the i-th coroutine
    tres,               \* tres[i]: outcome of the i-th coroutine
    tcall,              \* tcall[i]: the boundary-connector call task i issued
    tbval,              \* tbval[i]: the call whose returned value task i holds
    boundary_calls,     \* invocations of fetch_district_boundary so far
    done_order,         \* task indices in the order the tasks terminated
    cancel_requested,   \* the awaiting run has been cancelled from outside
    failed_datasets,    \* local list of the result loop
    ret,                \* value returned to the caller
    raised,             \* exception leaving fetch_datasets_for_request
    job_updates         \* calls of _update_job_status: <<status, progress>>

\* state of one call of BaseConnector._make_request (app/connectors/base)
VARIABLES
    rq_pc,              \* position of the retrying call
    rq_attempt,         \* tenacity's attempt_number
    rq_outcomes,        \* what each HTTP attempt of the call met
    rq_waits,           \* seconds waited before each further attempt
    rq_result           \* "response" or the exception leaving the call

\* state of the Overpass rate limiters and of the calls that pass them
\* (app/connectors/osm)
VARIABLES
    now,                \* the clock, in ticks
    rl_pc,              \* rl_pc[c]: position of caller c
    rl_inst,            \* rl_inst[c]: the connector (and limiter) c uses
    rl_locked,          \* rl_locked[l]: asyncio.Lock._locked of limiter l
    rl_waiters,         \* rl_waiters[l]: asyncio.Lock._waiters of limiter l
    last_request_time,  \* last_request_time[l], NoTime for None
    rl_wake,            \* rl_wake[c]: when c's sleep or backoff ends
    rl_arrivals,        \* rl_arrivals[l]: callers of acquire, in call order
    rl_grants,          \* rl_grants[l]: returns of acquire, in order
    ov_attempt,         \* ov_attempt[c]: attempt number of c's HTTP call
    ov_last,            \* time of the latest HTTP attempt to the source
    ov_prev             \* time of the attempt before that

dsVars == <<pc, datasets, job_id, all_datasets, tasks, tstate, tres, tcall,
            tbval, boundary_calls, done_order, cancel_requested,
            failed_datasets, ret, raised, job_updates>>

\* one connector fetch: the call with the source's answer, and its outcome
VARIABLES
    cn_call,
    cn_result

\* one harmonize_datasets call: the types of the datasets passed in, the
\* position of the loop, the dataset read last (by the loop, or by the
\* extraction that raised), whether each dataset the loop read so far
\* threw, the accumulated frames and counters, and the outcome; hz_after
\* is the dataset read last as the caller finds it afterwards, and
\* hz_clip_called tells whether _clip_to_boundary was called for it
VARIABLES
    hz_pc,
    hz_types,
    hz_i,
    hz_dataset,
    hz_after,
    hz_clip_called,
    hz_threw,
    hz_stats,
    hz_result

rqVars == <<rq_pc, rq_attempt, rq_outcomes, rq_waits, rq_result>>

rlVars == <<now, rl_pc, rl_inst, rl_locked, rl_waiters, last_request_time,
            rl_wake, rl_arrivals, rl_grants, ov_attempt, ov_last, ov_prev>>

\* everything that is not state of the acquisition orchestrator
cnVars == <<cn_call, cn_result>>

hzVars == <<hz_pc, hz_types, hz_i, hz_dataset, hz_after, hz_clip_called,
           hz_threw, hz_stats,
           hz_result>>

\* one call of _calculate_quality_stats: the frame passed and the report
VARIABLES
    qs_pc,
    qs_frame,
    qs_report

qsVars == <<qs_pc, qs_frame, qs_report>>

\* _validate_geometries called twice on one frame, and the quality report
\* of the frame it returned first
VARIABLES
    vg_pc,
    vg_frame,
    vg_once,
    vg_twice,
    vg_report

vgVars == <<vg_pc, vg_frame, vg_once, vg_twice, vg_report>>

\* one call of DataService._calculate_runtime_stats: the arguments and the
\* statistics returned
VARIABLES
    rs_pc,
    rs_call,
    rs_stats

rsVars == <<rs_pc, rs_call, rs_stats>>

\* one background task (app/api/chat_background): its position, the stage
\* it is at, whether the job row is there, what the parser returned, the Job
\* object of the session, the row as last committed, and the stage that
\* raised
VARIABLES
    jb_pc,
    jb_step,
    jb_exists,
    jb_parsed,
    jb_job,
    jb_row,
    jb_failed

jbVars == <<jb_pc, jb_step, jb_exists, jb_parsed, jb_job, jb_row, jb_failed>>

\* state of the parts of the services that are modelled on their own
otherVars == <<qsVars, vgVars, rsVars, jbVars>>

nonDsVars == <<rqVars, rlVars, cnVars, hzVars, otherVars>>

\* what a call of _calculate_quality_stats, of _validate_geometries and of
\* _calculate_runtime_stats leaves alone
nonQsVars == <<dsVars, rqVars, rlVars, cnVars, hzVars, vgVars, rsVars, jbVars>>
nonVgVars == <<dsVars, rqVars, rlVars, cnVars, hzVars, qsVars, rsVars, jbVars>>
nonRsVars == <<dsVars, rqVars, rlVars, cnVars, hzVars, qsVars, vgVars, jbVars>>

\* what the background task leaves alone
nonJbVars == <<dsVars, rqVars, rlVars, cnVars, hzVars, qsVars, vgVars, rsVars>>

vars == <<dsVars, nonDsVars>>

runVars == <<datasets, job_id, all_datasets, tasks>>
outVars == <<failed_datasets, ret, raised, job_updates>>

(* ---- helpers ---------------------------------------------------------- *)
Range(s) == {s[i] : i \in DOMAIN s}

NoResult == [tag |-> "none", dataset_type |-> "", task |-> 0, err |-> ""]

\* the dict _fetch_single_dataset returns
DatasetResult(i, dataset_type) ==
    [tag |-> "dict", dataset_type |-> dataset_type, task |-> i, err |-> ""]

\* the ConnectorError _fetch_single_dataset raises; err names the connector
\* call that failed
DatasetError(i, src) ==
    [tag |-> "exc", dataset_type |-> "", task |-> i, err |-> src]

\* a coroutine that ended with CancelledError
DatasetCancelled(i) ==
    [tag |-> "cancelled", dataset_type |-> "", task |-> i, err |-> ""]

TaskDone(i) == tstate[i] \in {"done", "failed", "cancelled"}

(* ---- fetch_datasets_for_request: building the fetch list -------------- *)
\* variant without the filter on the requested kinds
PrependBoundaryUnfiltered(ds) == <<BOUNDARY>> \o ds

PrependBoundary(ds) ==
    <<BOUNDARY>> \o SelectSeq(ds, LAMBDA d : d # BOUNDARY)

\* the task-creation loop of _execute_parallel_fetch
CreateTasks(all) ==
    SelectSeq(all, LAMBDA d : d \in DATASET_CONNECTOR_MAPPING)

(* ---- OverpassRateLimiter: constants and initial state ----------------- *)
\* default of max_requests_per_second and rate_limit_rps
MaxRequestsPerSecond == 2

\* the clock counts quarter seconds when the limit is 2 per second
TicksPerSecond == 2 * MaxRequestsPerSecond

\* self.min_interval = 1.0 / max_requests_per_second, in ticks
MinInterval == TicksPerSecond \div MaxRequestsPerSecond

NoTime == -1

\* every DataService owns one OverpassConnector, which owns one limiter:
\* one per run
Connectors == 1..NRuns

MaxOf(a, b) == IF a >= b THEN a ELSE b

CallerIds == 1..MaxOf(NCallers, NRuns)

RlInit ==
    /\ now = 0
    /\ rl_pc = [c \in CallerIds |-> "idle"]
    /\ rl_inst = [c \in CallerIds |-> 0]
    /\ rl_locked = [l \in Connectors |-> FALSE]
    /\ rl_waiters = [l \in Connectors |-> <<>>]
    /\ last_request_time = [l \in Connectors |-> NoTime]
    /\ rl_wake = [c \in CallerIds |-> NoTime]
    /\ rl_arrivals = [l \in Connectors |-> <<>>]
    /\ rl_grants = [l \in Connectors |-> <<>>]
    /\ ov_attempt = [c \in CallerIds |-> 0]
    /\ ov_last = NoTime
    /\ ov_prev = NoTime

\* no connector fetch and no harmonization has been made yet
NoCall == [kind |-> "none"]

\* no dataset has been read
NoDataset ==
    [dataset_type |-> "none", geodata |-> FALSE, crs |-> "none",
     features |-> <<>>, throws_at |-> "none"]

\* harmonized_datasets and processing_stats before the loop
NoStats ==
    [harmonized |-> <<>>, datasets_processed |-> 0, datasets_failed |-> 0,
     total_features |-> 0]

\* a Job as the chat endpoint creates it: the field defaults
NewJob ==
    [status |-> "pending", progress |-> 0, bezirk |-> "None",
     datasets |-> "None", result_package_id |-> "None",
     error_message |-> "None"]

Init ==
    /\ pc = "idle"
    /\ datasets = <<>>
    /\ job_id = FALSE
    /\ all_datasets = <<>>
    /\ tasks = <<>>
    /\ tstate = <<>>
    /\ tres = <<>>
    /\ tcall = <<>>
    /\ tbval = <<>>
    /\ boundary_calls = 0
    /\ done_order = <<>>
    /\ cancel_requested = FALSE
    /\ failed_datasets = <<>>
    /\ ret = <<>>
    /\ raised = "none"
    /\ job_updates = <<>>
    /\ rq_pc = "idle"
    /\ rq_attempt = 0
    /\ rq_outcomes = <<>>
    /\ rq_waits = <<>>
    /\ rq_result = "none"
    /\ RlInit
    /\ cn_call = NoCall
    /\ cn_result = NoCall
    /\ hz_pc = "idle"
    /\ hz_types = <<>>
    /\ hz_i = 0
    /\ hz_dataset = NoDataset
    /\ hz_after = NoDataset
    /\ hz_clip_called = FALSE
    /\ hz_threw = <<>>
    /\ hz_stats = NoStats
    /\ hz_result = NoCall
    /\ qs_pc = "idle"
    /\ qs_frame = NoCall
    /\ qs_report = NoCall
    /\ vg_pc = "idle"
    /\ vg_frame = <<>>
    /\ vg_once = <<>>
    /\ vg_twice = <<>>
    /\ vg_report = NoCall
    /\ rs_pc = "idle"
    /\ rs_call = NoCall
    /\ rs_stats = NoCall
    /\ jb_pc = "start"
    /\ jb_step = 0
    /\ jb_exists = TRUE
    /\ jb_parsed = NoCall
    /\ jb_job = NewJob
    /\ jb_row = NewJob
    /\ jb_failed = "none"

\* fetch_datasets_for_request up to the await of gather
FetchDatasetsForRequest ==
    /\ pc = "idle"
    /\ \E ds \in RequestLists, j \in BOOLEAN :
        LET all == PrependBoundary(ds)
            ts  == CreateTasks(all)
        IN  /\ datasets' = ds
            /\ job_id' = j
            /\ all_datasets' = all
            /\ tasks' = ts
            /\ tstate' = [i \in DOMAIN ts |-> "created"]
            /\ tres' = [i \in DOMAIN ts |-> NoResult]
            /\ tcall' = [i \in DOMAIN ts |-> 0]
            /\ tbval' = [i \in DOMAIN ts |-> 0]
            /\ job_updates' = IF j THEN <<<<"processing", 10>>>> ELSE <<>>
    /\ pc' = "gather"
    /\ UNCHANGED <<boundary_calls, done_order, cancel_requested,
                   failed_datasets, ret, raised>>
    /\ UNCHANGED nonDsVars

(* ---- _fetch_single_dataset: one coroutine per task -------------------- *)
\* variant in which a non-boundary kind calls its own connector at once
TaskStartDirect(i) ==
    /\ pc = "gather"
    /\ ~cancel_requested
    /\ tstate[i] = "created"
    /\ \A j \in 1..(i - 1) : tstate[j] # "created"
    /\ IF tasks[i] = BOUNDARY
         THEN /\ boundary_calls' = boundary_calls + 1
              /\ tcall' = [tcall EXCEPT ![i] = boundary_calls + 1]
              /\ tstate' = [tstate EXCEPT ![i] = "boundary_call"]
         ELSE /\ tstate' = [tstate EXCEPT ![i] = "connector_call"]
              /\ UNCHANGED <<boundary_calls, tcall>>
    /\ UNCHANGED <<pc, runVars, tres, tbval, done_order, cancel_requested,
                   outVars>>
    /\ UNCHANGED nonDsVars

\* variant in which the non-boundary kinds wait for the boundary task's call
\* instead of issuing their own
TaskStartSharedBoundary(i) ==
    /\ pc = "gather"
    /\ ~cancel_requested
    /\ tstate[i] = "created"
    /\ \A j \in 1..(i - 1) : tstate[j] # "created"
    /\ IF tasks[i] = BOUNDARY
         THEN /\ boundary_calls' = boundary_calls + 1
              /\ tcall' = [tcall EXCEPT ![i] = boundary_calls + 1]
         ELSE /\ tcall' = [tcall EXCEPT ![i] = 1]
              /\ UNCHANGED boundary_calls
    /\ tstate' = [tstate EXCEPT ![i] = "boundary_call"]
    /\ UNCHANGED <<pc, runVars, tres, tbval, done_order, cancel_requested,
                   outVars>>
    /\ UNCHANGED nonDsVars

\* gather wraps the coroutines in tasks in list order and the loop runs
\* their first steps in that order; the first step of every registered
\* kind reaches the call of fetch_district_boundary
TaskStart(i) ==
    /\ pc = "gather"
    /\ ~cancel_requested
    /\ tstate[i] = "created"
    /\ \A j \in 1..(i - 1) : tstate[j] # "created"
    /\ boundary_calls' = boundary_calls + 1
    /\ tcall' = [tcall EXCEPT ![i] = boundary_calls + 1]
    /\ tstate' = [tstate EXCEPT ![i] = "boundary_call"]
    /\ UNCHANGED <<pc, runVars, tres, tbval, done_order, cancel_requested,
                   outVars>>
    /\ UNCHANGED nonDsVars

\* fetch_district_boundary returns a GeoDataFrame to task i
FetchDistrictBoundaryReturns(i) ==
    /\ pc = "gather"
    /\ ~cancel_requested
    /\ tstate[i] = "boundary_call"
    /\ tbval' = [tbval EXCEPT ![i] = tcall[i]]
    /\ IF tasks[i] = BOUNDARY
         THEN /\ tstate' = [tstate EXCEPT ![i] = "done"]
              /\ tres' = [tres EXCEPT ![i] = DatasetResult(i, tasks[i])]
              /\ done_order' = Append(done_order, i)
         ELSE /\ tstate' = [tstate EXCEPT ![i] = "connector_call"]
              /\ UNCHANGED <<tres, done_order>>
    /\ UNCHANGED <<pc, runVars, tcall, boundary_calls, cancel_requested,
                   outVars>>
    /\ UNCHANGED nonDsVars

\* fetch_district_boundary raises in task i; the except clause wraps it
FetchDistrictBoundaryRaises(i) ==
    /\ pc = "gather"
    /\ ~cancel_requested
    /\ tstate[i] = "boundary_call"
    /\ tstate' = [tstate EXCEPT ![i] = "failed"]
    /\ tres' = [tres EXCEPT ![i] = DatasetError(i, "boundary")]
    /\ done_order' = Append(done_order, i)
    /\ UNCHANGED <<pc, runVars, tcall, tbval, boundary_calls,
                   cancel_requested, outVars>>
    /\ UNCHANGED nonDsVars

\* fetch_buildings / fetch_transport_stops returns to task i
ConnectorReturns(i) ==
    /\ pc = "gather"
    /\ ~cancel_requested
    /\ tstate[i] = "connector_call"
    /\ tstate' = [tstate EXCEPT ![i] = "done"]
    /\ tres' = [tres EXCEPT ![i] = DatasetResult(i, tasks[i])]
    /\ done_order' = Append(done_order, i)
    /\ UNCHANGED <<pc, runVars, tcall, tbval, boundary_calls,
                   cancel_requested, outVars>>
    /\ UNCHANGED nonDsVars

\* fetch_buildings / fetch_transport_stops raises in task i
ConnectorRaises(i) ==
    /\ pc = "gather"
    /\ ~cancel_requested
    /\ tstate[i] = "connector_call"
    /\ tstate' = [tstate EXCEPT ![i] = "failed"]
    /\ tres' = [tres EXCEPT ![i] = DatasetError(i, "own")]
    /\ done_order' = Append(done_order, i)
    /\ UNCHANGED <<pc, runVars, tcall, tbval, boundary_calls,
                   cancel_requested, outVars>>
    /\ UNCHANGED nonDsVars

(* ---- cancellation of the awaiting run --------------------------------- *)
\* the task awaiting gather is cancelled (timeout, shutdown): gather
\* forwards cancel() to every child that has not finished
CancelRun ==
    /\ pc = "gather"
    /\ ~cancel_requested
    /\ cancel_requested' = TRUE
    /\ UNCHANGED <<pc, runVars, tstate, tres, tcall, tbval, boundary_calls,
                   done_order, outVars>>
    /\ UNCHANGED nonDsVars

\* CancelledError is thrown into child i at its await; "except Exception"
\* does not catch it, so the child ends cancelled
TaskCancelled(i) ==
    /\ pc = "gather"
    /\ cancel_requested
    /\ ~TaskDone(i)
    /\ tstate' = [tstate EXCEPT ![i] = "cancelled"]
    /\ tres' = [tres EXCEPT ![i] = DatasetCancelled(i)]
    /\ done_order' = Append(done_order, i)
    /\ UNCHANGED <<pc, runVars, tcall, tbval, boundary_calls,
                   cancel_requested, outVars>>
    /\ UNCHANGED nonDsVars

(* ---- asyncio.gather with return_exceptions=True ---------------------- *)
\* fail-fast variant: the run resumes at the first failed child
GatherReadyFailFast ==
    \/ \E i \in DOMAIN tasks : tstate[i] = "failed"
    \/ \A i \in DOMAIN tasks : TaskDone(i)

\* the awaiting run resumes when every child has terminated
GatherReady == \A i \in DOMAIN tasks : TaskDone(i)

\* variant in which a cancelled gather still hands out its result list
GatherOutcomeIgnoresCancel == "results"

\* a cancelled gather raises CancelledError whatever return_exceptions is
GatherOutcome == IF cancel_requested THEN "CancelledError" ELSE "results"

\* variant that lists the outcomes in completion order
GatherResultsAsCompleted == [i \in DOMAIN tasks |-> tres[done_order[i]]]

\* the result list is in the order of the awaitables, not of completion
GatherResults == [i \in DOMAIN tasks |-> tres[i]]

(* ---- _execute_parallel_fetch: the result loop ------------------------- *)
\* variants of the abort test: no failure aborts / every failure aborts
IsCriticalNever(dataset) == FALSE

IsCriticalAlways(dataset) == TRUE

\* "if dataset == 'bezirksgrenzen'": the failure that aborts the request
IsCritical(dataset) == dataset = BOUNDARY

\* variant that loses the failed kind
RecordFailureDropped(failed, dataset) == failed

\* failed_datasets.append(dataset)
RecordFailure(failed, dataset) == Append(failed, dataset)

\* progress reported after the loop
Min(a, b) == IF a <= b THEN a ELSE b

Progress(nsucc, ntotal) == Min(90, ((nsucc * 80) \div ntotal) + 10)

RECURSIVE ProcessLoop(_, _, _, _, _)
ProcessLoop(results, ts, i, succ, failed) ==
    IF i > Len(results)
      THEN [aborted |-> FALSE, successful_results |-> succ,
            failed_datasets |-> failed]
      ELSE LET result == results[i]
               dataset == ts[i]
           IN  IF result.tag = "exc"
                 THEN IF IsCritical(dataset)
                        THEN [aborted |-> TRUE, successful_results |-> succ,
                              failed_datasets |-> failed]
                        ELSE ProcessLoop(results, ts, i + 1, succ,
                                         RecordFailure(failed, dataset))
                 ELSE IF result.tag = "dict"
                        THEN ProcessLoop(results, ts, i + 1,
                                         Append(succ, result), failed)
                        ELSE ProcessLoop(results, ts, i + 1, succ, failed)

\* gather was cancelled: CancelledError leaves fetch_datasets_for_request
GatherCancelled ==
    /\ pc = "gather"
    /\ GatherReady
    /\ GatherOutcome = "CancelledError"
    /\ pc' = "cancelled"
    /\ raised' = "CancelledError"
    /\ UNCHANGED <<runVars, tstate, tres, tcall, tbval, boundary_calls,
                   done_order, cancel_requested, failed_datasets, ret,
                   job_updates>>
    /\ UNCHANGED nonDsVars

\* gather returned: the loop over the results, the progress update and the
\* return (or the ConnectorError) of fetch_datasets_for_request
ProcessResults ==
    /\ pc = "gather"
    /\ GatherReady
    /\ GatherOutcome = "results"
    /\ LET r == ProcessLoop(GatherResults, tasks, 1, <<>>, <<>>)
       IN  /\ failed_datasets' = r.failed_datasets
           /\ IF r.aborted
                THEN /\ pc' = "raised"
                     /\ raised' = "ConnectorError"
                     /\ ret' = <<>>
                     /\ job_updates' =
                          IF job_id THEN Append(job_updates, <<"failed", 0>>)
                                    ELSE job_updates
                ELSE /\ pc' = "returned"
                     /\ raised' = "none"
                     /\ ret' = r.successful_results
                     /\ job_updates' =
                          IF job_id
                            THEN Append(job_updates,
                                   <<"processing",
                                     Progress(Len(r.successful_results),
                                              Len(all_datasets))>>)
                            ELSE job_updates
    /\ UNCHANGED <<runVars, tstate, tres, tcall, tbval, boundary_calls,
                   done_order, cancel_requested>>
    /\ UNCHANGED nonDsVars

Next ==
    \/ FetchDatasetsForRequest
    \/ \E i \in DOMAIN tasks :
        \/ TaskStart(i)
        \/ FetchDistrictBoundaryReturns(i)
        \/ FetchDistrictBoundaryRaises(i)
        \/ ConnectorReturns(i)
        \/ ConnectorRaises(i)
        \/ TaskCancelled(i)
    \/ CancelRun
    \/ GatherCancelled
    \/ ProcessResults

Spec == Init /\ [][Next]_vars

(* ======================================================================= *)
(* BaseConnector._make_request: one HTTP call under the tenacity decorator *)
(* ======================================================================= *)
\* stop_after_attempt(3)
StopAfterAttempt == 3

\* status codes a source may answer with
StatusCodes == {200, 204, 400, 401, 403, 404, 429, 500, 503}

\* what one client.request can meet: a response, a timeout
\* (httpx.TimeoutException) or another transport failure (httpx.RequestError)
HttpOutcomes ==
    {[kind |-> "status", code |-> c] : c \in StatusCodes}
        \cup {[kind |-> "timeout", code |-> 0],
              [kind |-> "request_error", code |-> 0]}

\* variant that reports every 4xx as invalid parameters
ClassifyAttemptAll4xxInvalid(o) ==
    IF o.kind = "timeout" THEN "ServiceUnavailableError"
    ELSE IF o.kind = "request_error" THEN "ConnectorError"
    ELSE IF o.code = 429 THEN "RateLimitError"
    ELSE IF o.code >= 500 THEN "ServiceUnavailableError"
    ELSE IF o.code >= 400 THEN "InvalidParameterError"
    ELSE "response"

\* the body of _make_request: what one attempt returns or raises
ClassifyAttempt(o) ==
    IF o.kind = "timeout" THEN "ServiceUnavailableError"
    ELSE IF o.kind = "request_error" THEN "ConnectorError"
    ELSE IF o.code = 400 THEN "InvalidParameterError"
    ELSE IF o.code = 429 THEN "RateLimitError"
    ELSE IF o.code >= 500 THEN "ServiceUnavailableError"
    ELSE IF o.code >= 400 THEN "ConnectorError"
    ELSE "response"

\* variants of the retry predicate: every connector error / also 429
RetryIfAnyConnectorError(exc) == exc # "response"

RetryIfAlsoRateLimit(exc) ==
    exc \in {"TimeoutException", "ServiceUnavailableError", "RateLimitError"}

\* retry_if_exception_type((httpx.TimeoutException, ServiceUnavailableError))
RetryIfException(exc) ==
    exc \in {"TimeoutException", "ServiceUnavailableError"}

Max(a, b) == IF a >= b THEN a ELSE b

\* wait_exponential(multiplier=1, min=2, max=10) after attempt n, in seconds
WaitExponential(n) == Max(2, Min(10, 1 * (2 ^ (n - 1))))

\* a connector calls _make_request: the first attempt is issued
MakeRequest ==
    /\ rq_pc = "idle"
    /\ rq_pc' = "attempting"
    /\ rq_attempt' = 1
    /\ UNCHANGED <<rq_outcomes, rq_waits, rq_result, dsVars, rlVars, cnVars, hzVars, otherVars>>

\* the attempt in flight ends; tenacity returns, re-raises or schedules a
\* further attempt
AttemptCompletes ==
    /\ rq_pc = "attempting"
    /\ \E o \in HttpOutcomes :
        LET exc == ClassifyAttempt(o)
        IN  /\ rq_outcomes' = Append(rq_outcomes, o)
            /\ IF exc = "response"
                 THEN /\ rq_pc' = "returned"
                      /\ rq_result' = "response"
                      /\ UNCHANGED rq_waits
                 ELSE IF RetryIfException(exc) /\ rq_attempt < StopAfterAttempt
                        THEN /\ rq_pc' = "waiting"
                             /\ rq_waits' =
                                  Append(rq_waits, WaitExponential(rq_attempt))
                             /\ UNCHANGED rq_result
                        ELSE /\ rq_pc' = "raised"
                             /\ rq_result' = exc
                             /\ UNCHANGED rq_waits
    /\ UNCHANGED <<rq_attempt, dsVars, rlVars, cnVars, hzVars, otherVars>>

\* the backoff sleep is over: the next attempt is issued
BackoffElapsed ==
    /\ rq_pc = "waiting"
    /\ rq_pc' = "attempting"
    /\ rq_attempt' = rq_attempt + 1
    /\ UNCHANGED <<rq_outcomes, rq_waits, rq_result, dsVars, rlVars, cnVars, hzVars, otherVars>>

RqNext ==
    \/ MakeRequest
    \/ AttemptCompletes
    \/ BackoffElapsed

SpecRequest == Init /\ [][RqNext]_vars

(* ======================================================================= *)
(* OverpassRateLimiter.acquire and the Overpass calls behind it            *)
(* ======================================================================= *)
Callers == 1..NCallers

Runs == 1..NRuns

\* variant that never sleeps
SleepNeededNever(last, t) == FALSE

\* "if self.last_request_time is not None" and "if elapsed < min_interval"
SleepNeeded(last, t) == last # NoTime /\ (t - last) < MinInterval

\* sleep_time = self.min_interval - elapsed
SleepTime(last, t) == MinInterval - (t - last)

\* variant that hands the lock to the waiter that queued last
NextWaiterNewest(l) == rl_waiters[l][Len(rl_waiters[l])]

\* asyncio.Lock wakes the waiter at the head of its queue
NextWaiter(l) == Head(rl_waiters[l])

\* the body of acquire from the lock to its first suspension: either the
\* caller goes to sleep holding the lock, or it stamps the time and leaves
AcquireBody(c, l) ==
    IF SleepNeeded(last_request_time[l], now)
      THEN /\ rl_pc' = [rl_pc EXCEPT ![c] = "sleeping"]
           /\ rl_wake' = [rl_wake EXCEPT
                            ![c] = now + SleepTime(last_request_time[l], now)]
           /\ rl_locked' = [rl_locked EXCEPT ![l] = TRUE]
           /\ UNCHANGED <<last_request_time, rl_grants>>
      ELSE /\ rl_pc' = [rl_pc EXCEPT ![c] = "granted"]
           /\ last_request_time' = [last_request_time EXCEPT ![l] = now]
           /\ rl_grants' = [rl_grants EXCEPT ![l] = Append(@, c)]
           /\ rl_locked' = [rl_locked EXCEPT ![l] = FALSE]
           /\ UNCHANGED rl_wake

\* caller c calls acquire of limiter l: it takes the free lock and runs the
\* body, or queues behind the holder and the earlier waiters
CallAcquire(c, l) ==
    /\ rl_pc[c] = "idle"
    /\ now <= MaxTime
    /\ rl_inst' = [rl_inst EXCEPT ![c] = l]
    /\ rl_arrivals' = [rl_arrivals EXCEPT ![l] = Append(@, c)]
    /\ IF ~rl_locked[l] /\ rl_waiters[l] = <<>>
         THEN /\ AcquireBody(c, l)
              /\ UNCHANGED rl_waiters
         ELSE /\ rl_pc' = [rl_pc EXCEPT ![c] = "waiting"]
              /\ rl_waiters' = [rl_waiters EXCEPT ![l] = Append(@, c)]
              /\ UNCHANGED <<rl_locked, last_request_time, rl_wake, rl_grants>>
    /\ UNCHANGED <<now, ov_attempt, ov_last, ov_prev, dsVars, rqVars, cnVars, hzVars, otherVars>>

\* the released lock passes to the next waiter, which runs the body
LockHandover(c) ==
    /\ rl_pc[c] = "waiting"
    /\ ~rl_locked[rl_inst[c]]
    /\ NextWaiter(rl_inst[c]) = c
    /\ rl_waiters' = [rl_waiters EXCEPT
                        ![rl_inst[c]] = SelectSeq(@, LAMBDA w : w # c)]
    /\ AcquireBody(c, rl_inst[c])
    /\ UNCHANGED <<now, rl_inst, rl_arrivals, ov_attempt, ov_last, ov_prev,
                   dsVars, rqVars, cnVars, hzVars, otherVars>>

\* asyncio.sleep is over: the time is stamped and the lock released
WakeUp(c) ==
    /\ rl_pc[c] = "sleeping"
    /\ now >= rl_wake[c]
    /\ rl_pc' = [rl_pc EXCEPT ![c] = "granted"]
    /\ last_request_time' = [last_request_time EXCEPT ![rl_inst[c]] = now]
    /\ rl_grants' = [rl_grants EXCEPT ![rl_inst[c]] = Append(@, c)]
    /\ rl_locked' = [rl_locked EXCEPT ![rl_inst[c]] = FALSE]
    /\ rl_wake' = [rl_wake EXCEPT ![c] = NoTime]
    /\ UNCHANGED <<now, rl_inst, rl_waiters, rl_arrivals, ov_attempt,
                   ov_last, ov_prev, dsVars, rqVars, cnVars, hzVars, otherVars>>

\* the clock advances while a caller may still arrive, while a caller sleeps
\* in acquire, and up to MaxClock while a retry waits for its backoff
Tick ==
    /\ \/ now < MaxTime
       \/ \E c \in CallerIds : rl_pc[c] = "sleeping" /\ rl_wake[c] > now
       \/ /\ now < MaxClock
          /\ \E c \in CallerIds : rl_pc[c] = "backoff" /\ rl_wake[c] > now
    /\ now' = now + 1
    /\ UNCHANGED <<rl_pc, rl_inst, rl_locked, rl_waiters, last_request_time,
                   rl_wake, rl_arrivals, rl_grants, ov_attempt, ov_last,
                   ov_prev, dsVars, rqVars, cnVars, hzVars, otherVars>>

RlNext ==
    \/ \E c \in Callers :
        \/ CallAcquire(c, 1)
        \/ LockHandover(c)
        \/ WakeUp(c)
    \/ Tick

\* callers of one limiter
SpecLimiter == Init /\ [][RlNext]_vars

\* the event loop runs every ready coroutine and time passes
SpecLimiterFair ==
    /\ Init
    /\ [][RlNext]_vars
    /\ \A c \in Callers : WF_vars(LockHandover(c)) /\ WF_vars(WakeUp(c))
    /\ WF_vars(Tick)

(* ---- OverpassConnector.fetch_transport_stops: acquire, then the call --- *)
\* the granted run issues the first HTTP attempt of its _make_request
IssueAttempt(c) ==
    /\ rl_pc[c] = "granted"
    /\ rl_pc' = [rl_pc EXCEPT ![c] = "attempting"]
    /\ ov_attempt' = [ov_attempt EXCEPT ![c] = 1]
    /\ ov_prev' = ov_last
    /\ ov_last' = now
    /\ UNCHANGED <<now, rl_inst, rl_locked, rl_waiters, last_request_time,
                   rl_wake, rl_arrivals, rl_grants, dsVars, rqVars, cnVars, hzVars, otherVars>>

\* the attempt ends: response, error, or backoff before a further attempt
AttemptEnds(c) ==
    /\ rl_pc[c] = "attempting"
    /\ \E o \in HttpOutcomes :
        LET exc == ClassifyAttempt(o)
        IN  IF exc = "response"
              THEN /\ rl_pc' = [rl_pc EXCEPT ![c] = "finished"]
                   /\ UNCHANGED rl_wake
              ELSE IF RetryIfException(exc) /\ ov_attempt[c] < StopAfterAttempt
                     THEN /\ rl_pc' = [rl_pc EXCEPT ![c] = "backoff"]
                          /\ rl_wake' =
                               [rl_wake EXCEPT
                                  ![c] = now + WaitExponential(ov_attempt[c])
                                                 * TicksPerSecond]
                     ELSE /\ rl_pc' = [rl_pc EXCEPT ![c] = "failed"]
                          /\ UNCHANGED rl_wake
    /\ UNCHANGED <<now, rl_inst, rl_locked, rl_waiters, last_request_time,
                   rl_arrivals, rl_grants, ov_attempt, ov_last, ov_prev,
                   dsVars, rqVars, cnVars, hzVars, otherVars>>

\* the backoff is over: tenacity calls _make_request again, which sends the
\* next attempt without asking the limiter
RetryAfterBackoff(c) ==
    /\ rl_pc[c] = "backoff"
    /\ now >= rl_wake[c]
    /\ rl_pc' = [rl_pc EXCEPT ![c] = "attempting"]
    /\ ov_attempt' = [ov_attempt EXCEPT ![c] = ov_attempt[c] + 1]
    /\ ov_prev' = ov_last
    /\ ov_last' = now
    /\ rl_wake' = [rl_wake EXCEPT ![c] = NoTime]
    /\ UNCHANGED <<now, rl_inst, rl_locked, rl_waiters, last_request_time,
                   rl_arrivals, rl_grants, dsVars, rqVars, cnVars, hzVars, otherVars>>

\* every run builds its own DataService, hence its own OverpassConnector and
\* its own limiter, and fetches the transport stops once
OvNext ==
    \/ \E c \in Runs :
        \/ CallAcquire(c, c)
        \/ IssueAttempt(c)
        \/ AttemptEnds(c)
        \/ RetryAfterBackoff(c)
    \/ Tick

\* concurrent runs fetching transport stops from the one Overpass source
SpecOverpass == Init /\ [][OvNext]_vars

(* ======================================================================= *)
(* Source connectors: one fetch and what it returns                        *)
(* ======================================================================= *)
\* SRSNAME of BASE_WFS_PARAMS and the crs of every returned frame
TARGET_CRS == "EPSG:25833"

\* the CRS a parsed response carries: none, the target one, or WGS84
SourceCrs == {"none", TARGET_CRS, "EPSG:4326"}

SeqsUpTo(S, n) == UNION {[1..k -> S] : k \in 0..n}

\* a feature of a response lies inside the district boundary or only in
\* its bounding box
ResponseFeatures == [inside : BOOLEAN]

\* typed errors _get_text and _make_request raise
FetchErrors ==
    {"InvalidParameterError", "RateLimitError", "ServiceUnavailableError",
     "ConnectorError"}

\* what the source answers: an error of the request, or a body that parses
\* (or not) into features with a CRS; clip tells whether gpd.clip raises
Responses ==
    [fetch : FetchErrors, crs : {"none"}, features : {<<>>},
     parses : {TRUE}, clip_raises : {FALSE}]
    \cup
    [fetch : {"ok"}, crs : SourceCrs,
     features : SeqsUpTo(ResponseFeatures, MaxFeatures),
     parses : BOOLEAN, clip_raises : BOOLEAN]

Returned(crs, features) ==
    [kind |-> "returned", crs |-> crs, features |-> features, exc |-> ""]

Raised(exc) ==
    [kind |-> "raised", crs |-> "", features |-> <<>>, exc |-> exc]

\* set_crs when the frame has no CRS, to_crs when it has another one
EnsureCrs(crs) ==
    IF crs = "none" THEN TARGET_CRS
    ELSE IF crs # TARGET_CRS THEN TARGET_CRS
    ELSE crs

\* gpd.clip keeps what lies inside the boundary; when it raises, the
\* bbox-filtered features are used
ClipOrFallback(features, clip_raises) ==
    IF clip_raises THEN features
    ELSE SelectSeq(features, LAMBDA f : f.inside)

\* DistrictBoundariesConnector.fetch_district_boundary
FetchDistrictBoundaryResult(r) ==
    IF r.fetch # "ok" THEN Raised(r.fetch)
    ELSE IF ~r.parses THEN Raised("Exception")
    ELSE IF r.features = <<>> THEN Raised("ValueError")
    ELSE Returned(EnsureCrs(r.crs), r.features)

\* variant that reports the empty answer as an error
FetchBuildingsEmptyRaises(boundary_empty, r) ==
    IF boundary_empty THEN Raised("ValueError")
    ELSE IF r.fetch # "ok" THEN Raised(r.fetch)
    ELSE IF ~r.parses THEN Raised("Exception")
    ELSE IF r.features = <<>> THEN Raised("ValueError")
    ELSE Returned(EnsureCrs(r.crs),
                  ClipOrFallback(r.features, r.clip_raises))

\* BuildingsConnector.fetch_buildings
FetchBuildingsResult(boundary_empty, r) ==
    IF boundary_empty THEN Raised("ValueError")
    ELSE IF r.fetch # "ok" THEN Raised(r.fetch)
    ELSE IF ~r.parses THEN Raised("Exception")
    ELSE IF r.features = <<>> THEN Returned(TARGET_CRS, <<>>)
    ELSE Returned(EnsureCrs(r.crs),
                  ClipOrFallback(r.features, r.clip_raises))

\* OverpassConnector.fetch_transport_stops: the elements are points in
\* WGS84 whatever the response says, and are transformed to the target CRS
FetchTransportStopsResult(boundary_empty, r) ==
    IF boundary_empty THEN Raised("ValueError")
    ELSE IF r.fetch # "ok" THEN Raised(r.fetch)
    ELSE IF ~r.parses THEN Raised("ValueError")
    ELSE IF r.features = <<>> THEN Returned(TARGET_CRS, <<>>)
    ELSE Returned(EnsureCrs("EPSG:4326"),
                  ClipOrFallback(r.features, r.clip_raises))

Call(kind, boundary_empty, r) ==
    [kind |-> kind, boundary_empty |-> boundary_empty, response |-> r]

FetchDistrictBoundary ==
    /\ \E r \in Responses :
        /\ cn_call' = Call("bezirksgrenzen", FALSE, r)
        /\ cn_result' = FetchDistrictBoundaryResult(r)
    /\ UNCHANGED <<dsVars, rqVars, rlVars, hzVars, otherVars>>

FetchBuildings ==
    /\ \E boundary_empty \in BOOLEAN, r \in Responses :
        /\ cn_call' = Call("gebaeude", boundary_empty, r)
        /\ cn_result' = FetchBuildingsResult(boundary_empty, r)
    /\ UNCHANGED <<dsVars, rqVars, rlVars, hzVars, otherVars>>

FetchTransportStops ==
    /\ \E boundary_empty \in BOOLEAN, r \in Responses :
        /\ cn_call' = Call("oepnv_haltestellen", boundary_empty, r)
        /\ cn_result' = FetchTransportStopsResult(boundary_empty, r)
    /\ UNCHANGED <<dsVars, rqVars, rlVars, hzVars, otherVars>>

CnNext ==
    \/ FetchDistrictBoundary
    \/ FetchBuildings
    \/ FetchTransportStops

\* fetches of the three connectors, one after the other
SpecConnector == Init /\ [][CnNext]_vars

(* ======================================================================= *)
(* ProcessingService: harmonization of the fetched datasets                *)
(* ======================================================================= *)
\* a geometry is valid, is made valid by buffer(0), or stays invalid
GeomKinds == {"valid", "repairable", "unrepairable"}

DatasetFeatures == [geom : GeomKinds, inside : BOOLEAN]

\* the step of the pipeline in which a library call raises for a dataset
ThrowSteps == {"none", "crs", "clip", "validate", "schema"}

\* the dataset types passed in: the boundary, and one of the other kinds,
\* which are all processed alike
DatasetTypes == {BOUNDARY, "gebaeude"}

\* a dataset dict of one type: its geodata is None, an empty frame, or a
\* frame of the given features with some CRS, on which the given steps
\* may raise
DatasetsOf(dataset_type, features, steps) ==
    [dataset_type : {dataset_type}, geodata : {FALSE}, crs : {"none"},
     features : {<<>>}, throws_at : {"none"}]
    \cup
    [dataset_type : {dataset_type}, geodata : {TRUE}, crs : SourceCrs,
     features : {<<>>}, throws_at : {"none"}]
    \cup
    [dataset_type : {dataset_type}, geodata : {TRUE}, crs : SourceCrs,
     features : SeqsUpTo(features, MaxFeatures) \ {<<>>},
     throws_at : steps]

\* boundary datasets, which are never clipped
BoundaryInputs ==
    DatasetsOf(BOUNDARY, [geom : GeomKinds, inside : {TRUE}],
               ThrowSteps \ {"clip"})

\* datasets of another kind
OtherInputs == DatasetsOf("gebaeude", DatasetFeatures, ThrowSteps)

\* _standardize_crs: set_crs on a frame without CRS, to_crs on a frame in
\* another CRS
StandardizeCrs(crs) ==
    IF crs = "none" THEN TARGET_CRS
    ELSE IF crs # TARGET_CRS THEN TARGET_CRS
    ELSE crs

\* _clip_to_boundary: gpd.clip, or the unclipped frame when it raises
ClipToBoundary(features, clip_raises) ==
    IF clip_raises THEN features
    ELSE SelectSeq(features, LAMBDA f : f.inside)

Buffer0(f) ==
    IF f.geom = "repairable" THEN [f EXCEPT !.geom = "valid"] ELSE f

\* variant that keeps the geometries buffer(0) could not repair
ValidateGeometriesKeepsInvalid(features) ==
    [k \in DOMAIN features |-> Buffer0(features[k])]

\* variant that drops only when buffer(0) repaired nothing
ValidateGeometriesDropsIfNoneRepaired(features) ==
    IF \E k \in DOMAIN features : features[k].geom = "repairable"
      THEN [k \in DOMAIN features |-> Buffer0(features[k])]
      ELSE SelectSeq(features, LAMBDA f : f.geom = "valid")

\* _validate_geometries: buffer(0) on the invalid ones, then drop what is
\* still invalid
ValidateGeometries(features) ==
    SelectSeq([k \in DOMAIN features |-> Buffer0(features[k])],
              LAMBDA f : f.geom = "valid")

\* _standardize_schema; src is the position of the dataset in the input
StandardizeSchema(features, dataset_type, crs, src) ==
    [k \in DOMAIN features |->
        [feature_id |-> <<dataset_type, k - 1>>,
         dataset_type |-> dataset_type,
         geom |-> features[k].geom,
         crs |-> crs,
         src |-> src]]

Processed(features) == [ok |-> TRUE, features |-> features]

ProcessingFailed == [ok |-> FALSE, features |-> <<>>]

\* variant that clips the boundary dataset like every other
ClipCalledForEveryKind(d) ==
    d.geodata /\ d.features # <<>> /\ d.throws_at # "crs"

\* whether _process_single_dataset gets to step 2 with dataset d and calls
\* _clip_to_boundary there
ClipCalled(d) ==
    /\ d.geodata /\ d.features # <<>> /\ d.throws_at # "crs"
    /\ d.dataset_type # BOUNDARY

\* _process_single_dataset
ProcessSingleDataset(d, src) ==
    IF ~d.geodata THEN ProcessingFailed
    ELSE IF d.features = <<>> THEN Processed(<<>>)
    ELSE IF d.throws_at = "crs" THEN ProcessingFailed
    ELSE
      LET crs == StandardizeCrs(d.crs)
          clipped == IF ClipCalled(d)
                       THEN ClipToBoundary(d.features, d.throws_at = "clip")
                       ELSE d.features
          cleaned == ValidateGeometries(clipped)
      IN  IF clipped # <<>> /\ d.throws_at = "validate"
            THEN ProcessingFailed
          ELSE IF cleaned # <<>> /\ d.throws_at = "schema"
            THEN ProcessingFailed
          ELSE Processed(StandardizeSchema(cleaned, d.dataset_type, crs, src))

\* the dataset d as _process_single_dataset leaves it to the caller:
\* set_crs works in place on a frame without CRS; to_crs and gpd.clip build
\* new frames, so _validate_geometries assigns the buffered geometries into
\* the caller's frame when the CRS was missing or the target one and the
\* frame was not clipped (the boundary kind, or a clip that raised)
InputAfter(d) ==
    IF ~d.geodata \/ d.features = <<>> \/ d.throws_at = "crs" THEN d
    ELSE
      LET crs_set == [d EXCEPT !.crs = IF @ = "none" THEN TARGET_CRS ELSE @]
          own_frame == /\ d.crs \in {"none", TARGET_CRS}
                       /\ \/ d.dataset_type = BOUNDARY
                          \/ d.throws_at = "clip"
      IN  IF own_frame /\ d.throws_at # "validate"
            THEN [crs_set EXCEPT
                    !.features = [k \in DOMAIN @ |-> Buffer0(@[k])]]
            ELSE crs_set

\* position of the first boundary dataset in the input, 0 when there is
\* none
FirstBoundary(types) ==
    IF \A i \in DOMAIN types : types[i] # BOUNDARY THEN 0
    ELSE CHOOSE i \in DOMAIN types :
           /\ types[i] = BOUNDARY
           /\ \A j \in 1..(i - 1) : types[j] # BOUNDARY

\* _extract_district_boundary on the first boundary dataset b: "ok", or
\* the exception it ends with
ExtractDistrictBoundary(types, b) ==
    IF FirstBoundary(types) = 0 THEN "ValueError"
    ELSE IF ~b.geodata THEN "AttributeError"
    ELSE IF b.features = <<>> THEN "ValueError"
    ELSE IF b.throws_at = "crs" THEN "CRSError"
    ELSE "ok"

\* ---- _calculate_quality_stats ------------------------------------------
\* the fields whose completeness is scored
KeyFields == {"feature_id", "dataset_type", "source_system", "bezirk"}

\* the feature count at which the coverage metric reaches 100 percent
CoverageFeatures == 1000

\* n / d rounded to the nearest integer
RoundDiv(n, d) == (2 * n + d) \div (2 * d)

\* what the report reads of a frame: its length, the number of valid
\* geometries, the rows per dataset_type, the non-null cells per key field,
\* and whether total_bounds raises
Frame(total, valid, type_counts, notna, bounds_raise) ==
    [total |-> total, valid |-> valid, type_counts |-> type_counts,
     notna |-> notna, bounds_raise |-> bounds_raise]

\* the concatenated frame of a harmonization: every row has all key fields
FrameOf(harmonized) ==
    Frame(Len(harmonized),
          Cardinality({k \in DOMAIN harmonized :
                         harmonized[k].geom = "valid"}),
          [t \in DatasetTypes |->
             Cardinality({k \in DOMAIN harmonized :
                            harmonized[k].dataset_type = t})],
          [f \in KeyFields |-> Len(harmonized)],
          FALSE)

\* variant that counts one row per dataset type
ValueCountsOnePerType(type_counts) ==
    LET present == {t \in DOMAIN type_counts : type_counts[t] > 0}
    IN  [t \in present |-> 1]

\* value_counts().to_dict(): the types that occur, with their row counts
ValueCounts(type_counts) ==
    LET present == {t \in DOMAIN type_counts : type_counts[t] > 0}
    IN  [t \in present |-> type_counts[t]]

\* spatial_coverage_percentage as a number of features out of
\* CoverageFeatures: min(100.0, total / 1000 * 100), 0.0 when total_bounds
\* raises
SpatialCoverage(total, bounds_raise) ==
    IF bounds_raise THEN 0
    ELSE IF total > CoverageFeatures THEN CoverageFeatures
    ELSE total

SumOver(f, S) ==
    LET RECURSIVE Sum(_)
        Sum(T) == IF T = {} THEN 0
                  ELSE LET x == CHOOSE y \in T : TRUE
                       IN  f[x] + Sum(T \ {x})
    IN  Sum(S)

\* variant that adds the coverage as a percentage
QualityScorePercentCoverage(valid, nn, cov, t) ==
    RoundDiv(4 * valid * Cardinality(KeyFields) * CoverageFeatures
               + 4 * nn * CoverageFeatures
               + 200 * cov * Cardinality(KeyFields) * t,
             Cardinality(KeyFields) * t * (CoverageFeatures \div 100))

\* quality_score, in thousandths: validity * 0.4 + completeness * 0.4
\* + coverage / 100 * 0.2 with validity = valid / t, completeness
\* = nn / (4 * t) and coverage / 100 = cov / CoverageFeatures; numerator and
\* denominator are written in hundreds
QualityScore(valid, nn, cov, t) ==
    RoundDiv(4 * valid * Cardinality(KeyFields) * CoverageFeatures
               + 4 * nn * CoverageFeatures
               + 2 * cov * Cardinality(KeyFields) * t,
             Cardinality(KeyFields) * t * (CoverageFeatures \div 100))

\* the report for an empty frame
EmptyReport ==
    [total_features |-> 0, geometry_validity_score |-> 0,
     spatial_coverage_percentage |-> 0, attribute_completeness_score |-> 0,
     datasets_by_type |-> <<>>, quality_score |-> 0]

\* _calculate_quality_stats; the scores are in thousandths, as rounded to
\* three places, the coverage in hundredths of a percent, as rounded to two
CalculateQualityStats(frame) ==
    IF frame.total = 0 THEN EmptyReport
    ELSE
      LET t   == frame.total
          cov == SpatialCoverage(t, frame.bounds_raise)
          nn  == SumOver(frame.notna, KeyFields)
      IN  [total_features |-> t,
           geometry_validity_score |-> RoundDiv(1000 * frame.valid, t),
           spatial_coverage_percentage |->
               RoundDiv(10000 * cov, CoverageFeatures),
           attribute_completeness_score |->
               RoundDiv(1000 * nn, Cardinality(KeyFields) * t),
           datasets_by_type |-> ValueCounts(frame.type_counts),
           quality_score |-> QualityScore(frame.valid, nn, cov, t)]

HarmonizeRaised(exc) == [kind |-> "raised", exc |-> exc]

HarmonizeReturned(types, stats) ==
    [kind |-> "returned",
     harmonized_data |-> stats.harmonized,
     crs |-> TARGET_CRS,
     processing_stats |->
        [datasets_processed |-> stats.datasets_processed,
         datasets_failed |-> stats.datasets_failed,
         total_features |-> stats.total_features],
     quality_stats |-> CalculateQualityStats(FrameOf(stats.harmonized)),
     total_datasets |-> Len(types),
     successful_datasets |-> stats.datasets_processed]

\* the boundary datasets the extraction accepts
UsableBoundaryInputs ==
    {b \in BoundaryInputs : ExtractDistrictBoundary(<<BOUNDARY>>, b) = "ok"}

\* harmonize_datasets up to the loop: the check of the list and the
\* extraction of the boundary, which reads the first boundary dataset b;
\* a boundary dataset that makes the call raise is kept as the dataset
\* read last, a usable one is kept when the loop reads it
HarmonizeDatasets ==
    /\ hz_pc = "idle"
    /\ \E n \in 0..MaxInputs : \E types \in [1..n -> DatasetTypes] :
        \E b \in IF FirstBoundary(types) = 0 THEN {NoDataset}
                 ELSE BoundaryInputs :
          /\ hz_types' = types
          /\ hz_dataset' = IF ExtractDistrictBoundary(types, b) = "ok"
                             THEN NoDataset ELSE b
          /\ hz_after' = hz_dataset'
          /\ hz_clip_called' = FALSE
          /\ IF types = <<>>
               THEN /\ hz_pc' = "raised"
                    /\ hz_result' = HarmonizeRaised("ValueError")
                    /\ hz_i' = 0
             ELSE IF ExtractDistrictBoundary(types, b) # "ok"
               THEN /\ hz_pc' = "raised"
                    /\ hz_result' = HarmonizeRaised("ProcessingError")
                    /\ hz_i' = 0
             ELSE /\ hz_pc' = "loop"
                  /\ hz_result' = hz_result
                  /\ hz_i' = 1
    /\ UNCHANGED <<hz_threw, hz_stats>>
    /\ UNCHANGED <<dsVars, rqVars, rlVars, cnVars, otherVars>>

\* variant that leaves the loop at the first dataset that fails
AfterDatasetStopsAtFailure(r, stats, i, n) ==
    IF r.ok
      THEN [stats |-> [stats EXCEPT
                         !.harmonized = @ \o r.features,
                         !.datasets_processed = @ + 1,
                         !.total_features = @ + Len(r.features)],
            next |-> i + 1]
      ELSE [stats |-> [stats EXCEPT !.datasets_failed = @ + 1],
            next |-> n + 1]

\* one turn of the loop: the result r of dataset i is appended and counted,
\* or the failure is counted, and the loop goes on with the next dataset
AfterDataset(r, stats, i, n) ==
    IF r.ok
      THEN [stats |-> [stats EXCEPT
                         !.harmonized = @ \o r.features,
                         !.datasets_processed = @ + 1,
                         !.total_features = @ + Len(r.features)],
            next |-> i + 1]
      ELSE [stats |-> [stats EXCEPT !.datasets_failed = @ + 1],
            next |-> i + 1]

\* the loop of harmonize_datasets reads the next dataset and processes it;
\* the first boundary dataset is one the extraction accepted
ProcessNextDataset ==
    /\ hz_pc = "loop"
    /\ hz_i <= Len(hz_types)
    /\ \E d \in IF hz_i = FirstBoundary(hz_types) THEN UsableBoundaryInputs
                ELSE IF hz_types[hz_i] = BOUNDARY THEN BoundaryInputs
                ELSE OtherInputs :
        LET r == ProcessSingleDataset(d, hz_i)
            a == AfterDataset(r, hz_stats, hz_i, Len(hz_types))
        IN  /\ hz_dataset' = d
            /\ hz_after' = InputAfter(d)
            /\ hz_clip_called' = ClipCalled(d)
            /\ hz_threw' = Append(hz_threw, ~r.ok)
            /\ hz_stats' = a.stats
            /\ hz_i' = a.next
    /\ UNCHANGED <<hz_pc, hz_types, hz_result>>
    /\ UNCHANGED <<dsVars, rqVars, rlVars, cnVars, otherVars>>

\* variant that raises when no dataset could be processed
AfterLoopAllFailedRaises(types, stats) ==
    IF stats.datasets_processed = 0
      THEN HarmonizeRaised("ProcessingError")
      ELSE HarmonizeReturned(types, stats)

\* harmonize_datasets after the loop: the frames are concatenated, or an
\* empty frame is built, and the result is returned
AfterLoop(types, stats) == HarmonizeReturned(types, stats)

ReturnResult ==
    /\ hz_pc = "loop"
    /\ hz_i > Len(hz_types)
    /\ hz_result' = AfterLoop(hz_types, hz_stats)
    /\ hz_pc' = hz_result'.kind
    /\ UNCHANGED <<hz_types, hz_i, hz_dataset, hz_after, hz_clip_called,
                   hz_threw, hz_stats>>
    /\ UNCHANGED <<dsVars, rqVars, rlVars, cnVars, otherVars>>

HzNext ==
    \/ HarmonizeDatasets
    \/ ProcessNextDataset
    \/ ReturnResult

\* one harmonization; the service keeps no state between calls
SpecHarmonize == Init /\ [][HzNext]_vars

(* ======================================================================= *)
(* The exact clip in the connectors and in the harmonization               *)
(* ======================================================================= *)
\* a connector fetch, or a harmonization: the two places where a frame is
\* clipped to the district boundary
ClipNext ==
    \/ hz_pc = "idle" /\ CnNext
    \/ cn_call = NoCall /\ HzNext

SpecClip == Init /\ [][ClipNext]_vars

(* ======================================================================= *)
(* ProcessingService._calculate_quality_stats on its own                   *)
(* ======================================================================= *)
\* the counts from 0 to total that are near 0 or near total
Near(total) ==
    {k \in 0..total : k <= MaxCount \/ total - k <= MaxCount}

\* the lengths of the frames passed: short ones, and ones around the
\* length at which the coverage metric is capped
FrameLengths ==
    (0..MaxCount)
      \cup {CoverageFeatures - 1, CoverageFeatures, CoverageFeatures + 1}

\* the frames of one length
FramesOf(total) ==
    {Frame(total, valid,
           [t \in DatasetTypes |->
              IF t = BOUNDARY THEN b ELSE total - b],
           notna, bounds_raise) :
       valid \in Near(total),
       b \in {0, IF total > 0 THEN 1 ELSE 0},
       notna \in [KeyFields -> Near(total)],
       bounds_raise \in BOOLEAN}

CalculateQualityStatsCall ==
    /\ qs_pc = "idle"
    /\ \E total \in FrameLengths : \E frame \in FramesOf(total) :
         /\ qs_frame' = frame
         /\ qs_report' = CalculateQualityStats(frame)
    /\ qs_pc' = "done"
    /\ UNCHANGED nonQsVars

SpecQuality == Init /\ [][CalculateQualityStatsCall]_vars

(* ======================================================================= *)
(* ProcessingService._validate_geometries on its own                       *)
(* ======================================================================= *)
\* the frames of a buildings dataset that lies inside the district
ValidationFrames ==
    UNION {[1..k -> [geom : GeomKinds, inside : {TRUE}]] : k \in 0..MaxGeoms}

\* _validate_geometries on a frame
ValidateCall ==
    /\ vg_pc = "idle"
    /\ \E frame \in ValidationFrames :
         /\ vg_frame' = frame
         /\ vg_once' = ValidateGeometries(frame)
    /\ vg_pc' = "validated"
    /\ UNCHANGED <<vg_twice, vg_report>>
    /\ UNCHANGED nonVgVars

\* _validate_geometries on the frame it returned
ValidateAgain ==
    /\ vg_pc = "validated"
    /\ vg_twice' = ValidateGeometries(vg_once)
    /\ vg_pc' = "revalidated"
    /\ UNCHANGED <<vg_frame, vg_once, vg_report>>
    /\ UNCHANGED nonVgVars

\* the remaining steps for the validated frame: _standardize_schema, and
\* _calculate_quality_stats on the standardized frame
ReportQuality ==
    /\ vg_pc = "revalidated"
    /\ vg_report' =
         CalculateQualityStats(
           FrameOf(StandardizeSchema(vg_once, "gebaeude", TARGET_CRS, 1)))
    /\ vg_pc' = "reported"
    /\ UNCHANGED <<vg_frame, vg_once, vg_twice>>
    /\ UNCHANGED nonVgVars

VgNext ==
    \/ ValidateCall
    \/ ValidateAgain
    \/ ReportQuality

SpecValidate == Init /\ [][VgNext]_vars

(* ======================================================================= *)
(* DataService._calculate_runtime_stats                                    *)
(* ======================================================================= *)
\* the connector status passed by the caller
ConnectorStatus == {"success", "failed", "partial"}

\* response times in half milliseconds
ResponseTimes == 0..(2 * MaxCount + 1)

\* the calls: a frame of some length, with some rows that have a geometry,
\* a response time and a status
RuntimeStatsCalls ==
    UNION {[total : {total}, with_geometry : Near(total),
            response_time : ResponseTimes, status : ConnectorStatus] :
             total \in FrameLengths}

\* variant without the cap at 100 percent
RuntimeCoverageUncapped(total) == total

\* coverage_percentage as a number of features out of CoverageFeatures:
\* min(100.0, total_features / 1000 * 100)
RuntimeCoverage(total) ==
    IF total > CoverageFeatures THEN CoverageFeatures ELSE total

\* _calculate_runtime_stats; the coverage is in hundredths of a percent and
\* the quality score in hundredths, as rounded to two places
CalculateRuntimeStats(c) ==
    IF c.total = 0
      THEN [response_time_ms |-> c.response_time \div 2,
            feature_count |-> 0,
            spatial_extent |-> "None",
            coverage_percentage |-> 0,
            data_quality_score |-> 0,
            connector_status |-> c.status,
            error_message |-> IF c.status = "success" THEN "None"
                              ELSE "No features returned"]
      ELSE [response_time_ms |-> c.response_time \div 2,
            feature_count |-> c.total,
            spatial_extent |-> "total_bounds",
            coverage_percentage |->
                RoundDiv(10000 * RuntimeCoverage(c.total), CoverageFeatures),
            data_quality_score |-> RoundDiv(100 * c.with_geometry, c.total),
            connector_status |-> c.status,
            error_message |-> "None"]

CalculateRuntimeStatsCall ==
    /\ rs_pc = "idle"
    /\ \E c \in RuntimeStatsCalls :
         /\ rs_call' = c
         /\ rs_stats' = CalculateRuntimeStats(c)
    /\ rs_pc' = "done"
    /\ UNCHANGED nonRsVars

SpecRuntimeStats == Init /\ [][CalculateRuntimeStatsCall]_vars

(* ======================================================================= *)
(* The background task of a job (app/api/chat_background)                  *)
(* ======================================================================= *)
\* the statements of the inner try block, in order; a stage is a service
\* call, a check, or an update of the job followed by session.commit()
Stages ==
    <<"set_processing", "parse", "save_parsed", "require_bezirk",
      "progress_25", "fetch", "progress_40", "harmonize", "progress_55",
      "metadata", "progress_70", "progress_85", "export", "save_package",
      "complete">>

\* the stages that call a service
ServiceStages == {"parse", "fetch", "harmonize", "metadata", "export"}

\* the stages that end with session.commit()
CommitStages ==
    {"set_processing", "save_parsed", "progress_25", "progress_40",
     "progress_55", "progress_70", "progress_85", "save_package", "complete"}

\* what the parser may return: with or without a district and datasets
ParsedRequests == [kind : {"parsed"}, bezirk : BOOLEAN, datasets : BOOLEAN]

\* Job.mark_completed
MarkCompleted(job) ==
    [job EXCEPT !.status = "completed", !.progress = 100,
                !.result_package_id = "package"]

\* Job.mark_failed
MarkFailed(job) ==
    [job EXCEPT !.status = "failed", !.error_message = "Processing error"]

\* Job.is_finished
IsFinished(job) == job.status \in {"completed", "failed"}

\* the assignments a stage makes to the Job object before it commits
JobAfter(stage, job, parsed) ==
    CASE stage = "set_processing" ->
           [job EXCEPT !.status = "processing", !.progress = 0]
      [] stage = "save_parsed" ->
           [job EXCEPT
              !.bezirk = IF parsed.bezirk THEN "bezirk" ELSE "None",
              !.datasets = IF parsed.datasets THEN "datasets" ELSE "None",
              !.progress = 15]
      [] stage = "progress_25" -> [job EXCEPT !.progress = 25]
      [] stage = "progress_40" -> [job EXCEPT !.progress = 40]
      [] stage = "progress_55" -> [job EXCEPT !.progress = 55]
      [] stage = "progress_70" -> [job EXCEPT !.progress = 70]
      [] stage = "progress_85" -> [job EXCEPT !.progress = 85]
      [] stage = "complete" -> MarkCompleted(job)
      [] OTHER -> job

\* the constructors of the five services; one that raises (NLPService
\* without an API key) is caught by the outer handler, which only logs
CreateServices ==
    /\ jb_pc = "start"
    /\ \E raises \in BOOLEAN :
         /\ jb_pc' = IF raises THEN "terminated" ELSE "session"
         /\ jb_failed' = IF raises THEN "create_services" ELSE jb_failed
    /\ UNCHANGED <<jb_step, jb_exists, jb_parsed, jb_job, jb_row>>
    /\ UNCHANGED nonJbVars

\* session_factory() and session.get(Job, job_id): an error of the
\* database is caught by the outer handler, and a job that is no longer
\* there ends the task
GetJob ==
    /\ jb_pc = "session"
    /\ \E raises \in BOOLEAN, found \in BOOLEAN :
         IF raises
           THEN /\ jb_pc' = "terminated"
                /\ jb_failed' = "open_session"
                /\ UNCHANGED <<jb_step, jb_exists>>
         ELSE IF ~found
           THEN /\ jb_pc' = "terminated"
                /\ jb_exists' = FALSE
                /\ UNCHANGED <<jb_failed, jb_step>>
         ELSE /\ jb_pc' = "stage"
              /\ jb_step' = 1
              /\ UNCHANGED <<jb_failed, jb_exists>>
    /\ UNCHANGED <<jb_parsed, jb_job, jb_row>>
    /\ UNCHANGED nonJbVars

\* the stage succeeds: its assignments are made and committed, and the
\* task goes on; after the last stage the task ends
StageSucceeds ==
    /\ jb_pc = "stage"
    /\ LET stage == Stages[jb_step]
       IN  /\ stage = "require_bezirk" => jb_parsed.bezirk
           /\ \E parsed \in IF stage = "parse" THEN ParsedRequests
                            ELSE {jb_parsed} :
                /\ jb_parsed' = parsed
                /\ jb_job' = JobAfter(stage, jb_job, parsed)
                /\ jb_row' = IF stage \in CommitStages THEN jb_job'
                             ELSE jb_row
    /\ jb_step' = jb_step + 1
    /\ jb_pc' = IF jb_step = Len(Stages) THEN "terminated" ELSE "stage"
    /\ UNCHANGED <<jb_exists, jb_failed>>
    /\ UNCHANGED nonJbVars

\* the stage raises: a service call or a commit may, the check of the
\* district does when the parser found none; the assignments before a
\* commit that raises are made, and the inner handler takes over
StageRaises ==
    /\ jb_pc = "stage"
    /\ LET stage == Stages[jb_step]
       IN  /\ \/ stage \in ServiceStages \cup CommitStages
              \/ stage = "require_bezirk" /\ ~jb_parsed.bezirk
           /\ jb_job' = JobAfter(stage, jb_job, jb_parsed)
           /\ jb_failed' = stage
    /\ jb_pc' = "handler"
    /\ UNCHANGED <<jb_step, jb_exists, jb_parsed, jb_row>>
    /\ UNCHANGED nonJbVars

\* the inner handler: mark_failed and commit; when this commit raises too
\* the outer handler logs and the row stays as last committed
HandleFailure ==
    /\ jb_pc = "handler"
    /\ jb_job' = MarkFailed(jb_job)
    /\ \E raises \in BOOLEAN :
         jb_row' = IF raises THEN jb_row ELSE jb_job'
    /\ jb_pc' = "terminated"
    /\ UNCHANGED <<jb_step, jb_exists, jb_parsed, jb_failed>>
    /\ UNCHANGED nonJbVars

JbNext ==
    \/ CreateServices
    \/ GetJob
    \/ StageSucceeds
    \/ StageRaises
    \/ HandleFailure

SpecJob == Init /\ [][JbNext]_vars

(* ======================================================================= *)
(* Properties of the acquisition orchestrator                              *)
(* ======================================================================= *)
Finished == pc \in {"returned", "raised"}

BoundaryFailed ==
    \E i \in DOMAIN tasks : tasks[i] = BOUNDARY /\ tres[i].tag = "exc"

BoundarySucceeded ==
    \E i \in DOMAIN tasks : tasks[i] = BOUNDARY /\ tres[i].tag = "dict"

Count(seq, x) == Cardinality({i \in DOMAIN seq : seq[i] = x})

\* kinds of the failed tasks, in task order
FailedTaskKinds ==
    LET idx == SelectSeq([i \in DOMAIN tasks |-> i],
                         LAMBDA i : tres[i].tag = "exc")
    IN  [k \in DOMAIN idx |-> tasks[idx[k]]]

\* position of task i in the order of termination
DonePos(i) == CHOOSE k \in DOMAIN done_order : done_order[k] = i

\* C1: when the boundary task failed, the finished run has raised a
\* ConnectorError and returned no dataset result, whatever the other tasks
\* did.
C1_BoundaryFailureAborts ==
    (Finished /\ BoundaryFailed)
        => (pc = "raised" /\ raised = "ConnectorError" /\ ret = <<>>)

C1_Witness ==
    /\ pc = "raised"
    /\ BoundaryFailed
    /\ Len(tasks) >= 2
    /\ \A i \in DOMAIN tasks : tasks[i] # BOUNDARY => tres[i].tag = "dict"

\* C2: when the boundary task succeeded the run returns normally, the kinds
\* in the returned list are exactly the boundary and the requested kinds
\* with a registered connector that have a succeeded task, and no returned
\* entry stems from a failed task.
C2_PartialFailureResilience ==
    (Finished /\ BoundarySucceeded) =>
        /\ pc = "returned"
        /\ {ret[j].dataset_type : j \in DOMAIN ret} =
             {BOUNDARY} \cup
             {k \in Range(datasets) \cap DATASET_CONNECTOR_MAPPING :
                \E i \in DOMAIN tasks : tasks[i] = k /\ tres[i].tag = "dict"}
        /\ \A j \in DOMAIN ret : tres[ret[j].task].tag = "dict"
        /\ \A i \in DOMAIN tasks :
             tres[i].tag = "exc" => \A j \in DOMAIN ret : ret[j].task # i

C2_Witness ==
    /\ pc = "returned"
    /\ \E i \in DOMAIN tasks : tres[i].tag = "exc"
    /\ \E i \in DOMAIN tasks : tasks[i] # BOUNDARY /\ tres[i].tag = "dict"

C4_FailureIsolation ==
    /\ [](Finished =>
            /\ \A i \in DOMAIN tasks : tstate[i] \in {"done", "failed"}
            /\ pc = "returned" =>
                 /\ \A i \in DOMAIN tasks :
                      tres[i].tag = "dict" =>
                          \E j \in DOMAIN ret : ret[j] = tres[i]
                 /\ Len(failed_datasets) =
                      Cardinality({i \in DOMAIN tasks : tres[i].tag = "exc"}))
    /\ [][\A i \in DOMAIN tasks :
            (tstate[i] # "cancelled" /\ tstate'[i] = "cancelled")
                => cancel_requested]_vars

C4_Witness ==
    /\ pc = "returned"
    /\ \E i, j \in DOMAIN tasks :
        /\ tres[i].tag = "exc"
        /\ tres[j].tag = "dict"
        /\ DonePos(i) < DonePos(j)

\* C5 as stated: a non-boundary kind's own fetch is in flight only once the
\* boundary task has completed successfully.
C5_BoundaryTaskFirst ==
    \A i \in DOMAIN tasks :
        (tasks[i] # BOUNDARY /\ tstate[i] = "connector_call")
            => BoundarySucceeded

\* C5 amended: the boundary task is the first task started, and a
\* non-boundary task reaches its own connector only after its own call of
\* the boundary connector has returned.
C5_OwnBoundaryCallFirst ==
    /\ \A i \in DOMAIN tasks :
        tcall[i] > 0 =>
            \E b \in DOMAIN tasks : tasks[b] = BOUNDARY /\ tcall[b] > 0
    /\ \A i \in DOMAIN tasks :
        (tstate[i] = "connector_call" \/ tres[i].err = "own"
            \/ (tasks[i] # BOUNDARY /\ tres[i].tag = "dict"))
            => (tcall[i] > 0 /\ tbval[i] = tcall[i])

C5_Witness ==
    \E i, b \in DOMAIN tasks :
        /\ tasks[b] = BOUNDARY
        /\ tstate[b] = "boundary_call"
        /\ tasks[i] # BOUNDARY
        /\ tstate[i] = "connector_call"

\* C6: whichever task's call of the boundary connector failed, the finished
\* run has raised and returned no dataset result.
C6_AnyBoundaryCallFailureFatal ==
    (Finished /\ \E i \in DOMAIN tasks :
                    tres[i].tag = "exc" /\ tres[i].err = "boundary")
        => (pc = "raised" /\ ret = <<>>)

\* C7 as stated: a run invokes the boundary connector once and all its
\* tasks hold that one value.
C7_BoundaryFetchedOnce ==
    pc = "returned" =>
        /\ boundary_calls = 1
        /\ \A i, j \in DOMAIN tasks :
             (tbval[i] > 0 /\ tbval[j] > 0) => tbval[i] = tbval[j]

\* C7 amended: every started task has issued its own call of the boundary
\* connector, so a run that returns has made one call per task, and a task
\* that succeeded holds the value of its own call.
C7_BoundaryFetchedPerTask ==
    /\ boundary_calls =
         Cardinality({i \in DOMAIN tasks : tcall[i] > 0})
    /\ \A i, j \in DOMAIN tasks : (i # j /\ tcall[i] > 0) => tcall[i] # tcall[j]
    /\ \A i \in DOMAIN tasks :
         tstate[i] \in {"boundary_call", "connector_call", "done", "failed"}
             => tcall[i] > 0
    /\ pc = "returned" =>
         /\ boundary_calls = Len(tasks)
         /\ \A i \in DOMAIN tasks :
              tres[i].tag = "dict" => tbval[i] = tcall[i]

C7_Witness ==
    /\ pc = "returned"
    /\ boundary_calls >= 3
    /\ Len(ret) >= 3

\* C8 as stated: the fetch list has no repeated kind, starts with the
\* boundary, and there is one task per distinct requested kind.
C8_FetchListDeduplicated ==
    pc # "idle" =>
        /\ all_datasets[1] = BOUNDARY
        /\ \A k \in Range(all_datasets) : Count(all_datasets, k) = 1
        /\ Len(tasks) = Cardinality(Range(datasets) \cup {BOUNDARY})

\* C8 amended: the fetch list starts with the boundary, holds it exactly
\* once, keeps every other requested entry (repeats included) in request
\* order, and one task is launched per entry with a registered connector.
C8_BoundaryOnceOthersKept ==
    pc # "idle" =>
        /\ all_datasets[1] = BOUNDARY
        /\ Count(all_datasets, BOUNDARY) = 1
        /\ \A k \in RequestKinds \ {BOUNDARY} :
             Count(all_datasets, k) = Count(datasets, k)
        /\ \E f \in [2..Len(all_datasets) -> DOMAIN datasets] :
             /\ \A a, b \in 2..Len(all_datasets) : a < b => f[a] < f[b]
             /\ \A a \in 2..Len(all_datasets) : all_datasets[a] = datasets[f[a]]
        /\ Len(tasks) =
             Cardinality({a \in DOMAIN all_datasets :
                            all_datasets[a] \in DATASET_CONNECTOR_MAPPING})

C8_Witness ==
    /\ pc = "returned"
    /\ Len(datasets) >= 2
    /\ datasets[1] = datasets[2]
    /\ datasets[1] \in DATASET_CONNECTOR_MAPPING \ {BOUNDARY}
    /\ Len(tasks) = 3

\* C9: the returned list starts with the boundary result, its entries are
\* in task order (hence in request order) whatever the completion order
\* was, and every entry carries the kind of the task that produced it.
C9_ResultOrder ==
    pc = "returned" =>
        /\ Len(ret) >= 1
        /\ ret[1].dataset_type = BOUNDARY
        /\ \A j, k \in DOMAIN ret : j < k => ret[j].task < ret[k].task
        /\ \A j \in DOMAIN ret :
             /\ ret[j].dataset_type = tasks[ret[j].task]
             /\ ret[j] = tres[ret[j].task]
        /\ \E f \in [2..Len(ret) -> DOMAIN datasets] :
             /\ \A a, b \in 2..Len(ret) : a < b => f[a] < f[b]
             /\ \A a \in 2..Len(ret) : ret[a].dataset_type = datasets[f[a]]

C9_Witness ==
    /\ pc = "returned"
    /\ Len(ret) = 3
    /\ ret[2].dataset_type # ret[3].dataset_type
    /\ DonePos(3) < DonePos(2)
    /\ DonePos(2) < DonePos(1)

\* C10: once the run is cancelled no task makes progress other than ending
\* cancelled, the run ends with CancelledError only after every task has
\* terminated, and no list is returned from a cancelled run, so no
\* cancelled task is ever among the successful results.
C10_CancellationPropagates ==
    /\ [](pc = "returned" =>
            /\ ~cancel_requested
            /\ \A i \in DOMAIN tasks : tstate[i] # "cancelled"
            /\ \A j \in DOMAIN ret : tstate[ret[j].task] = "done")
    /\ [](pc = "cancelled" =>
            /\ ret = <<>>
            /\ raised = "CancelledError"
            /\ \A i \in DOMAIN tasks : TaskDone(i))
    /\ [](cancel_requested => pc \in {"gather", "cancelled"})
    /\ [][cancel_requested =>
            \A i \in DOMAIN tasks :
                tstate'[i] = tstate[i] \/ tstate'[i] = "cancelled"]_vars

C10_Witness ==
    /\ pc = "cancelled"
    /\ \E i \in DOMAIN tasks : tstate[i] = "cancelled" /\ tcall[i] > 0
    /\ \E i \in DOMAIN tasks : tres[i].tag = "dict"

(* ======================================================================= *)
(* Properties of the request client                                        *)
(* ======================================================================= *)
\* an attempt that ended in a timeout or a 5xx response
EndedInTimeoutOr5xx(o) ==
    o.kind = "timeout" \/ (o.kind = "status" /\ o.code >= 500)

Is4xxNot429(o) ==
    o.kind = "status" /\ o.code >= 400 /\ o.code < 500 /\ o.code # 429

RqOver == rq_pc \in {"returned", "raised"}

\* HTTP attempts issued so far by the call
RqIssued == Len(rq_outcomes) + (IF rq_pc = "attempting" THEN 1 ELSE 0)

\* C11: a call issues at most 3 attempts, every attempt but the last ended
\* in a timeout or a 5xx response, and an attempt with any other outcome
\* ends the call.
C11_RetryPolicy ==
    /\ RqIssued <= 3
    /\ \A k \in 1..(RqIssued - 1) : EndedInTimeoutOr5xx(rq_outcomes[k])
    /\ \A k \in DOMAIN rq_outcomes :
         ~EndedInTimeoutOr5xx(rq_outcomes[k])
             => (k = Len(rq_outcomes) /\ RqOver)
    /\ Len(rq_outcomes) = 3 => RqOver

C11_Witness ==
    /\ rq_pc = "raised"
    /\ Len(rq_outcomes) = 3
    /\ rq_outcomes[1].kind = "timeout"
    /\ rq_outcomes[2].code = 503
    /\ rq_outcomes[3].code = 404

\* C12 as stated: an attempt answered with a 4xx other than 429 ends the
\* call with InvalidParameterError.
C12_Every4xxInvalidParameter ==
    \A k \in DOMAIN rq_outcomes :
        Is4xxNot429(rq_outcomes[k])
            => /\ k = Len(rq_outcomes)
               /\ rq_pc = "raised"
               /\ rq_result = "InvalidParameterError"

\* C12 amended: such an attempt ends the call without a retry; the error is
\* InvalidParameterError for 400 and the plain ConnectorError for the other
\* codes.
C12_Only400InvalidParameter ==
    \A k \in DOMAIN rq_outcomes :
        Is4xxNot429(rq_outcomes[k])
            => /\ k = Len(rq_outcomes)
               /\ rq_pc = "raised"
               /\ rq_result = IF rq_outcomes[k].code = 400
                                THEN "InvalidParameterError"
                                ELSE "ConnectorError"

C12_Witness ==
    /\ rq_pc = "raised"
    /\ Len(rq_outcomes) = 1
    /\ rq_outcomes[1].code = 404
    /\ rq_result = "ConnectorError"

\* C13: a 429 ends the call with RateLimitError and is never retried; a call
\* whose 3 attempts all ended in a timeout or a 5xx raises
\* ServiceUnavailableError; an attempt answered with a success status ends
\* the call with that response, also after earlier timeouts or 5xx.
C13_RateLimitAndUnavailable ==
    /\ \A k \in DOMAIN rq_outcomes :
         (rq_outcomes[k].kind = "status" /\ rq_outcomes[k].code = 429)
             => /\ k = Len(rq_outcomes)
                /\ rq_pc = "raised"
                /\ rq_result = "RateLimitError"
    /\ (Len(rq_outcomes) = 3
          /\ \A k \in DOMAIN rq_outcomes : EndedInTimeoutOr5xx(rq_outcomes[k]))
         => (rq_pc = "raised" /\ rq_result = "ServiceUnavailableError")
    /\ \A k \in DOMAIN rq_outcomes :
         (rq_outcomes[k].kind = "status" /\ rq_outcomes[k].code < 300)
             => /\ k = Len(rq_outcomes)
                /\ rq_pc = "returned"
                /\ rq_result = "response"
    /\ rq_result = "ServiceUnavailableError" => Len(rq_outcomes) = 3

C13_Witness ==
    /\ rq_pc = "returned"
    /\ Len(rq_outcomes) = 3
    /\ rq_outcomes[1].code = 500
    /\ rq_outcomes[2].kind = "timeout"

(* ======================================================================= *)
(* Properties of the rate limiter                                          *)
(* ======================================================================= *)
\* C14: on every limiter at most one caller is inside the locked section,
\* a grant comes at least min_interval (half a second, 2 ticks) after the
\* previous grant, and the first caller is granted at the moment it calls.
C14_GrantsSeparated ==
    /\ [](\A l \in Connectors :
            /\ Cardinality({c \in CallerIds :
                              rl_pc[c] = "sleeping" /\ rl_inst[c] = l}) <= 1
            /\ (\E c \in CallerIds : rl_pc[c] = "sleeping" /\ rl_inst[c] = l)
                 => rl_locked[l])
    /\ [][\A l \in Connectors :
            (last_request_time[l] # NoTime
                /\ Len(rl_grants'[l]) > Len(rl_grants[l]))
              => 2 * (last_request_time'[l] - last_request_time[l])
                     >= TicksPerSecond]_vars
    /\ [][\A l \in Connectors :
            (rl_arrivals[l] = <<>> /\ rl_arrivals'[l] # <<>>)
              => (rl_grants'[l] = rl_arrivals'[l] /\ now' = now
                    /\ last_request_time'[l] = now)]_vars

C14_Witness ==
    /\ Len(rl_grants[1]) = 4
    /\ now = 3 * MinInterval

\* C15: callers are granted in the order in which they called acquire, and
\* every caller that called acquire is eventually granted.
C15_FifoNoStarvation ==
    /\ [](\A l \in Connectors :
            /\ Len(rl_grants[l]) <= Len(rl_arrivals[l])
            /\ \A k \in DOMAIN rl_grants[l] :
                 rl_grants[l][k] = rl_arrivals[l][k])
    /\ \A c \in Callers :
         (rl_pc[c] \in {"waiting", "sleeping"}) ~> (rl_pc[c] = "granted")

C15_Witness ==
    /\ rl_arrivals[1] = <<3, 1, 4, 2>>
    /\ rl_grants[1] = <<3>>
    /\ rl_waiters[1] = <<4, 2>>
    /\ rl_pc[1] = "sleeping"

\* C16: any two consecutive HTTP attempts sent to the Overpass source are at
\* least the minimum interval (half a second) apart.
C16_SourceRateBounded ==
    ov_prev # NoTime => 2 * (ov_last - ov_prev) >= TicksPerSecond

(* ======================================================================= *)
(* Properties of the source connectors                                     *)
(* ======================================================================= *)
\* the source answered successfully with zero features, to a call that
\* passed a usable boundary
ZeroFeatureAnswer ==
    /\ cn_call.kind # "none"
    /\ ~cn_call.boundary_empty
    /\ cn_call.response.fetch = "ok"
    /\ cn_call.response.parses
    /\ cn_call.response.features = <<>>

EmptyCollectionReturned ==
    /\ cn_result.kind = "returned"
    /\ cn_result.features = <<>>
    /\ cn_result.crs = TARGET_CRS

\* C17 (as stated): for every kind's connector, a successful response with
\* zero features makes the fetch return an empty collection in the target
\* CRS, never an error.
C17_EveryKindReturnsEmpty ==
    ZeroFeatureAnswer => EmptyCollectionReturned

\* C17 (amended): a successful response with zero features makes the
\* buildings and the transport-stops connector return an empty collection
\* in the target CRS, and makes the boundary connector raise ValueError.
C17_EmptyExceptBoundary ==
    ZeroFeatureAnswer =>
        IF cn_call.kind = "bezirksgrenzen"
          THEN cn_result.kind = "raised" /\ cn_result.exc = "ValueError"
          ELSE EmptyCollectionReturned

C17_Witness ==
    /\ ZeroFeatureAnswer
    /\ cn_call.kind = "gebaeude"
    /\ cn_call.response.crs = "EPSG:4326"
    /\ EmptyCollectionReturned

(* ======================================================================= *)
(* Properties of the harmonization                                         *)
(* ======================================================================= *)
HzReturned == hz_pc = "returned"

HzRaised == hz_pc = "raised"

\* the features of the accumulated frames that come from dataset i
From(i) == SelectSeq(hz_stats.harmonized, LAMBDA f : f.src = i)

HasGeom(d, g) ==
    \E k \in DOMAIN d.features : d.features[k].geom = g

\* C18: every feature of a returned harmonized collection has a valid
\* geometry and is in EPSG:25833, as is the collection, whatever geometries
\* and CRSs the inputs had.
C18_ValidAndTargetCrs ==
    HzReturned =>
        /\ hz_result.crs = "EPSG:25833"
        /\ \A k \in DOMAIN hz_result.harmonized_data :
             /\ hz_result.harmonized_data[k].geom = "valid"
             /\ hz_result.harmonized_data[k].crs = "EPSG:25833"

C18_Witness ==
    /\ HzReturned
    /\ Len(hz_types) = 2
    /\ hz_dataset.crs = "EPSG:4326"
    /\ HasGeom(hz_dataset, "repairable")
    /\ hz_dataset.throws_at = "clip"
    /\ Len(hz_result.harmonized_data) = 2
    /\ hz_result.harmonized_data[2].src = 2

\* C19: a dataset that throws in a step of its processing is counted as
\* failed and adds no feature, every other dataset is counted as processed
\* and adds its features, the loop goes on to the last dataset either way,
\* and in a returned result datasets_processed + datasets_failed is the
\* number of input datasets.
C19_FailedExcludedOthersKept ==
    /\ [](hz_pc \in {"loop", "returned"} =>
            /\ hz_stats.datasets_processed + hz_stats.datasets_failed
                 = Len(hz_threw)
            /\ hz_stats.datasets_failed
                 = Cardinality({i \in DOMAIN hz_threw : hz_threw[i]})
            /\ \A i \in DOMAIN hz_threw : hz_threw[i] => From(i) = <<>>
            /\ hz_threw # <<>> =>
                 LET r == ProcessSingleDataset(hz_dataset, Len(hz_threw))
                 IN  /\ hz_threw[Len(hz_threw)] = ~r.ok
                     /\ From(Len(hz_threw)) = r.features)
    /\ [](HzReturned =>
            /\ Len(hz_threw) = Len(hz_types)
            /\ hz_result.processing_stats.datasets_processed
                 + hz_result.processing_stats.datasets_failed
                 = Len(hz_types)
            /\ hz_result.harmonized_data = hz_stats.harmonized)
    /\ [][\A i \in DOMAIN hz_threw :
            SelectSeq(hz_stats'.harmonized, LAMBDA f : f.src = i)
              = From(i)]_vars

C19_Witness ==
    /\ HzReturned
    /\ hz_threw = <<TRUE, FALSE>>
    /\ Len(hz_result.harmonized_data) = 1
    /\ hz_result.harmonized_data[1].src = 2
    /\ hz_result.processing_stats.datasets_failed = 1

\* the boundary dataset is absent from the input or is an empty frame
BoundaryAbsentOrEmpty ==
    \/ FirstBoundary(hz_types) = 0
    \/ /\ HzRaised
       /\ hz_dataset.geodata
       /\ hz_dataset.features = <<>>

EveryDatasetFails ==
    /\ hz_threw # <<>>
    /\ Len(hz_threw) = Len(hz_types)
    /\ \A i \in DOMAIN hz_threw : hz_threw[i]

\* C20 (as stated): harmonize_datasets raises exactly when the boundary
\* dataset is absent or empty or every dataset fails to process, and
\* returns a result in every other case.
C20_RaisesIffBoundaryOrAllFail ==
    (HzRaised \/ HzReturned) =>
        (HzRaised <=> (BoundaryAbsentOrEmpty \/ EveryDatasetFails))

\* C20 (amended): harmonize_datasets raises exactly when no dataset is
\* passed or the first boundary dataset is absent, empty, or cannot be
\* read or brought to the target CRS, and it does so before any dataset is
\* processed; when the boundary is usable and every dataset fails to
\* process it returns an empty collection with datasets_failed equal to
\* the number of inputs.
C20_RaisesIffBoundaryUnusable ==
    /\ [][(hz_pc = "idle" /\ hz_pc' # "idle") =>
            (hz_pc' = "raised" <=>
               \/ hz_types' = <<>>
               \/ FirstBoundary(hz_types') = 0
               \/ hz_dataset' \in BoundaryInputs \ UsableBoundaryInputs)]_vars
    /\ [][hz_pc = "loop" => hz_pc' \in {"loop", "returned"}]_vars
    /\ []((HzReturned /\ EveryDatasetFails) =>
            /\ hz_result.harmonized_data = <<>>
            /\ hz_result.processing_stats.datasets_failed = Len(hz_types))

C20_Witness ==
    /\ HzReturned
    /\ hz_threw = <<TRUE, TRUE>>
    /\ hz_result.harmonized_data = <<>>

\* C21: in a returned result the per-kind counts of the quality report sum
\* to its total_features, which is the length of the harmonized collection
\* and the total_features of the processing statistics.
C21_CountsSumToTotal ==
    HzReturned =>
        LET qr == hz_result.quality_stats
        IN  /\ SumOver(qr.datasets_by_type, DOMAIN qr.datasets_by_type)
                 = qr.total_features
            /\ qr.total_features = Len(hz_result.harmonized_data)
            /\ qr.total_features = hz_result.processing_stats.total_features
            /\ \A t \in DOMAIN qr.datasets_by_type :
                 qr.datasets_by_type[t]
                   = Len(SelectSeq(hz_result.harmonized_data,
                                   LAMBDA f : f.dataset_type = t))

C21_Witness ==
    /\ HzReturned
    /\ hz_result.quality_stats.total_features = 2
    /\ DOMAIN hz_result.quality_stats.datasets_by_type = {BOUNDARY}
    /\ hz_threw = <<FALSE, FALSE>>

\* C23: harmonize_datasets leaves every input dataset as it was before the
\* call: the geometries and the CRS of the dataset the loop read last are
\* afterwards what they were when it was passed in.
C23_InputsLeftUnchanged ==
    (hz_pc \in {"loop", "returned"} /\ hz_threw # <<>>) =>
        /\ hz_after.crs = hz_dataset.crs
        /\ hz_after.features = hz_dataset.features

\* the features of dataset d that reach _validate_geometries
EnteringValidation(d) ==
    IF ClipCalled(d) THEN ClipToBoundary(d.features, d.throws_at = "clip")
    ELSE d.features

\* the geometries of dataset d that the validation removes
Dropped(d) ==
    Len(EnteringValidation(d)) - Len(ValidateGeometries(EnteringValidation(d)))

\* the datasets that can stand at the position of the dataset read last
InputsLike(d) ==
    IF d.dataset_type = BOUNDARY THEN BoundaryInputs ELSE OtherInputs

\* C24: the number of geometries removed as still invalid after buffer(0)
\* is recorded in the output: what a processed dataset adds to the output
\* determines how many of its features were dropped, so no two datasets
\* that lead to the same output differ in the number of drops.
C24_DropsCounted ==
    ( /\ hz_pc \in {"loop", "returned"}
      /\ hz_threw # <<>>
      /\ ~hz_threw[Len(hz_threw)] ) =>
        \A d \in InputsLike(hz_dataset) :
            ProcessSingleDataset(d, Len(hz_threw))
              = ProcessSingleDataset(hz_dataset, Len(hz_threw))
            => Dropped(d) = Dropped(hz_dataset)

\* C29: in a returned harmonized collection no two features carry the same
\* feature_id, whatever datasets were passed, two of one kind included.
C29_FeatureIdUnique ==
    HzReturned =>
        \A j, k \in DOMAIN hz_result.harmonized_data :
            hz_result.harmonized_data[j].feature_id
              = hz_result.harmonized_data[k].feature_id
            => j = k

(* ======================================================================= *)
(* Properties of the quality report                                        *)
(* ======================================================================= *)
QsDone == qs_pc = "done"

AllComplete(frame) ==
    \A f \in KeyFields : frame.notna[f] = frame.total

\* C22: the quality score is between 0 and 1 for every frame; it is 0.0 for
\* an empty frame and 1.0 for a frame whose geometries are all valid, whose
\* four key fields are all non-null and which has at least 1000 features,
\* the coverage metric being at its cap of 100 percent.
C22_ScoreInUnitInterval ==
    QsDone =>
        /\ qs_report.quality_score \in 0..1000
        /\ qs_frame.total = 0 => qs_report.quality_score = 0
        /\ ( /\ qs_frame.valid = qs_frame.total
             /\ AllComplete(qs_frame)
             /\ qs_frame.total >= 1000
             /\ qs_report.spatial_coverage_percentage = 10000 )
           => qs_report.quality_score = 1000

C22_Witness ==
    /\ QsDone
    /\ qs_frame.total = 1001
    /\ qs_frame.valid = 1001
    /\ AllComplete(qs_frame)
    /\ qs_report.quality_score = 1000
    /\ qs_report.spatial_coverage_percentage = 10000

(* ======================================================================= *)
(* Properties of the geometry validation                                   *)
(* ======================================================================= *)
CountGeom(frame, g) ==
    Cardinality({k \in DOMAIN frame : frame[k].geom = g})

\* C25: for a buildings frame of 2 valid polygons and 1 self-intersecting
\* one, 3 features are retained and the reported validity ratio is 1.0 when
\* the repair succeeds, and 2 features are retained and the reported
\* validity ratio is 2 of 3 when the repair fails.
C25_ScenarioC ==
    (vg_pc = "reported" /\ Len(vg_frame) = 3
       /\ CountGeom(vg_frame, "valid") = 2) =>
        /\ CountGeom(vg_frame, "repairable") = 1 =>
             /\ Len(vg_once) = 3
             /\ vg_report.geometry_validity_score = 1000
        /\ CountGeom(vg_frame, "unrepairable") = 1 =>
             /\ Len(vg_once) = 2
             /\ vg_report.geometry_validity_score = RoundDiv(1000 * 2, 3)

\* C26: _validate_geometries applied to its own output returns the same
\* features, all valid, and drops nothing.
C26_ValidationIdempotent ==
    vg_pc \in {"revalidated", "reported"} =>
        /\ vg_twice = vg_once
        /\ \A k \in DOMAIN vg_twice : vg_twice[k].geom = "valid"
        /\ Len(vg_once) - Len(vg_twice) = 0

C26_Witness ==
    /\ vg_pc = "revalidated"
    /\ Len(vg_frame) = 3
    /\ CountGeom(vg_frame, "repairable") = 1
    /\ CountGeom(vg_frame, "unrepairable") = 1
    /\ Len(vg_twice) = 2

(* ======================================================================= *)
(* Properties of the clip                                                  *)
(* ======================================================================= *)
\* the source answered a usable call with features and gpd.clip raised
ClipRaisedInConnector ==
    /\ cn_call.kind \in {"gebaeude", "oepnv_haltestellen"}
    /\ ~cn_call.boundary_empty
    /\ cn_call.response.fetch = "ok"
    /\ cn_call.response.parses
    /\ cn_call.response.features # <<>>
    /\ cn_call.response.clip_raises

\* the loop has processed the dataset hz_dataset
DatasetRead ==
    /\ hz_pc \in {"loop", "returned"}
    /\ hz_threw # <<>>

\* C27: a clip that raises never fails a dataset: a connector then returns
\* the features of the bbox-filtered response, the harmonization goes on
\* with the unclipped features through validation and schema
\* standardization, and _clip_to_boundary is not called for the boundary
\* kind.
C27_ClipFailureNeverFails ==
    /\ ClipRaisedInConnector =>
         /\ cn_result.kind = "returned"
         /\ cn_result.features = cn_call.response.features
    /\ (DatasetRead /\ hz_dataset.throws_at = "clip") =>
         /\ hz_clip_called
         /\ ~hz_threw[Len(hz_threw)]
         /\ From(Len(hz_threw))
              = StandardizeSchema(ValidateGeometries(hz_dataset.features),
                                  hz_dataset.dataset_type, TARGET_CRS,
                                  Len(hz_threw))
    /\ (DatasetRead /\ hz_dataset.dataset_type = BOUNDARY) =>
         ~hz_clip_called

C27_Witness ==
    /\ HzReturned
    /\ hz_dataset.throws_at = "clip"
    /\ hz_dataset.features = <<[geom |-> "repairable", inside |-> FALSE]>>
    /\ Len(From(2)) = 1
    /\ hz_threw = <<FALSE, FALSE>>

(* ======================================================================= *)
(* Properties of the runtime statistics                                    *)
(* ======================================================================= *)
\* C28: feature_count is the length of the frame; spatial_extent is None
\* exactly when the frame is empty; coverage_percentage is
\* min(100, feature_count / 1000 * 100), so it is 0 for an empty frame, 100
\* for 1000 features or more, and not smaller than the coverage of any
\* shorter frame.
C28_RuntimeStats ==
    rs_pc = "done" =>
        /\ rs_stats.feature_count = rs_call.total
        /\ rs_stats.spatial_extent = "None" <=> rs_call.total = 0
        /\ rs_stats.coverage_percentage
             = (IF rs_call.total * 100 < 1000 * 100
                  THEN rs_call.total * 10 ELSE 10000)
        /\ rs_call.total = 0 => rs_stats.coverage_percentage = 0
        /\ rs_call.total >= 1000 => rs_stats.coverage_percentage = 10000
        /\ \A c \in RuntimeStatsCalls :
             c.total <= rs_call.total =>
               CalculateRuntimeStats(c).coverage_percentage
                 <= rs_stats.coverage_percentage

C28_Witness ==
    /\ rs_pc = "done"
    /\ rs_call.total = 1001
    /\ rs_call.status = "success"
    /\ rs_stats.coverage_percentage = 10000
    /\ rs_stats.spatial_extent # "None"

(* ======================================================================= *)
(* Properties of the background task                                       *)
(* ======================================================================= *)
\* C30: when the background task of an existing job has terminated, the
\* committed status of the job is completed or failed; it is completed
\* only if no stage failed, and then progress is 100 and result_package_id
\* is set; when a stage failed it is failed, with an error message and
\* without a result package.
C30_TerminalStatus ==
    (jb_pc = "terminated" /\ jb_exists) =>
        /\ IsFinished(jb_row)
        /\ jb_row.status = "completed" =>
             /\ jb_failed = "none"
             /\ jb_row.progress = 100
             /\ jb_row.result_package_id # "None"
        /\ jb_failed # "none" =>
             /\ jb_row.status = "failed"
             /\ jb_row.error_message # "None"
             /\ jb_row.result_package_id = "None"

====
